---- MODULE Spec2Model ----
(***************************************************************************)
(* Model of src/src/modules.py: six hand-written autograd operators        *)
(* (CrossEntropy, LayerNorm, Linear, GELU, Add, Embedding), each a         *)
(* forward/backward pair working on tensors and a save-for-backward        *)
(* context, and the __main__ harness that checks them one after another.   *)
(*                                                                         *)
(* Tensors live in a heap (a sequence of cells, the index is the object's  *)
(* identity).  A cell is [shape, dtype, data].  Integer data is computed   *)
(* exactly.  Values that need exp, log, tanh or rsqrt have no exact        *)
(* representation; their data is the term <<function name, arguments>>,    *)
(* and their shape is computed as the tensor library computes it.          *)
(***************************************************************************)
EXTENDS Integers, Sequences, FiniteSets, TLC

VARIABLES heap, op, inputs, ctx, out, ygrad, grads, status, exc,
          pc, i, params, stdout, stderr, fwdOK, gradOK, ceY, embX

opVars == <<heap, op, inputs, ctx, out, ygrad, grads, status, exc>>
harnessVars == <<pc, i, params, stdout, stderr, fwdOK, gradOK, ceY, embX>>
vars == <<heap, op, inputs, ctx, out, ygrad, grads, status, exc,
          pc, i, params, stdout, stderr, fwdOK, gradOK, ceY, embX>>

----------------------------------------------------------------------------
(* Bounds *)
MaxDim == 2
MaxSeed == 1
T == 3
C == 2

Dims == 1..MaxDim
Seeds == 0..MaxSeed

----------------------------------------------------------------------------
(* Tensor library primitives used by the operators *)

None == 0

Max(a, b) == IF a >= b THEN a ELSE b

Range(s) == {s[k] : k \in DOMAIN s}

RECURSIVE SumSeq(_)
SumSeq(s) == IF Len(s) = 0 THEN 0 ELSE Head(s) + SumSeq(Tail(s))

Tensor(shape, dtype, data) == [shape |-> shape, dtype |-> dtype, data |-> data]

\* torch.rand(shape): a float tensor of the given shape, values fixed by the seed
Rand2(seed, R, K) ==
    Tensor(<<R, K>>, "float",
           [r \in 1..R |-> [c \in 1..K |->
               (((seed + 1) * (r + 2 * c) + seed * r * c + r * r) % 5) - 2]])

Rand1(seed, K) ==
    Tensor(<<K>>, "float", [c \in 1..K |-> (((seed + 2) * c + seed * c * c) % 5) - 2])

\* variant: the upper end is drawn too
RandInt_inclusive(high, n) == [1..n -> 0..high]

\* torch.randint(high, size=(n,)): n integers drawn from 0..high-1
RandInt(high, n) == [1..n -> 0..(high - 1)]

IntTensor(idx) == Tensor(<<Len(idx)>>, "int", idx)

\* A @ B
MatMul(A, B) ==
    [r \in 1..Len(A) |-> [c \in 1..Len(B[1]) |->
        SumSeq([k \in 1..Len(B) |-> A[r][k] * B[k][c]])]]

\* A.T
Transpose(A) == [c \in 1..Len(A[1]) |-> [r \in 1..Len(A) |-> A[r][c]]]

\* A.sum(0)
Sum0(A) == [c \in 1..Len(A[1]) |-> SumSeq([r \in 1..Len(A) |-> A[r][c]])]

\* torch.zeros_like(A)
ZerosLike(A) == [r \in 1..Len(A) |-> [c \in 1..Len(A[1]) |-> 0]]

\* torch.eye(n)
Eye(n) == [r \in 1..n |-> [c \in 1..n |-> IF r = c THEN 1 ELSE 0]]

\* A[idx] with a 1-d integer index tensor (0-based rows): a new tensor
IndexRows(A, idx) == [t \in 1..Len(idx) |-> A[idx[t] + 1]]

\* variant: a later row for the same index overwrites the earlier one
RECURSIVE IndexAdd_overwrite(_, _, _)
IndexAdd_overwrite(dst, idx, src) ==
    IF Len(idx) = 0 THEN dst
    ELSE IndexAdd_overwrite([dst EXCEPT ![idx[1] + 1] = src[1]], Tail(idx), Tail(src))

\* torch.index_add(dst, 0, idx, src): dst with src[t] added to row idx[t], t in order
RECURSIVE IndexAdd(_, _, _)
IndexAdd(dst, idx, src) ==
    IF Len(idx) = 0 THEN dst
    ELSE LET k == idx[1] + 1
             d1 == [dst EXCEPT ![k] = [c \in 1..Len(dst[k]) |-> dst[k][c] + src[1][c]]]
         IN IndexAdd(d1, Tail(idx), Tail(src))

\* heap allocation: the new object's identity is its position
Alloc(h, t) == Append(h, t)
NewId(h) == Len(h) + 1

\* what a forward or backward call leaves behind
Result(h, saved, ret, e) == [heap |-> h, saved |-> saved, ret |-> ret, exc |-> e]

----------------------------------------------------------------------------
(* CrossEntropyFn *)

\* s[torch.arange(T), y]: the two index tensors are broadcast against each
\* other (equal lengths, or one of them of length 1); otherwise IndexError
IndexBroadcastable(n1, n2) == n1 = n2 \/ n1 = 1 \/ n2 = 1

GatherPairs(Tn, y) ==
    [k \in 1..Max(Tn, Len(y)) |->
        <<IF Tn = 1 THEN 1 ELSE k, y[IF Len(y) = 1 THEN 1 ELSE k] + 1>>]

CrossEntropyFn_forward(h, xi, yi) ==
    LET x == h[xi]
        y == h[yi]
        Tn == x.shape[1]
        Cn == x.shape[2]
        s == Tensor(<<Tn, Cn>>, "float", <<"softmax", x.data>>)
        h1 == Alloc(h, s)
        saved == <<xi, yi, NewId(h)>>
        loss == Tensor(<<>>, "float",
                       <<"neg_mean_log", s.data, GatherPairs(Tn, y.data)>>)
    IN IF IndexBroadcastable(Tn, y.shape[1])
       THEN Result(Alloc(h1, loss), saved, NewId(h1), "")
       ELSE Result(h1, saved, None, "IndexError")

\* variant: the two entries are returned in the other order
CrossEntropyFn_backward_swapped(h, saved, gi) ==
    LET x == h[saved[1]]
        dx == Tensor(x.shape, "float", <<"y_grad*(s-onehot)/T", h[gi].data>>)
    IN Result(Alloc(h, dx), saved, <<None, NewId(h)>>, "")

CrossEntropyFn_backward(h, saved, gi) ==
    LET x == h[saved[1]]
        y == h[saved[2]]
        s == h[saved[3]]
        Tn == x.shape[1]
        Cn == x.shape[2]
        onehot == IndexRows(Eye(Cn), y.data)
        dx == Tensor(<<Max(Tn, Len(onehot)), Cn>>, "float",
                     <<"y_grad*(s-onehot)/T", h[gi].data, s.data, onehot, Tn>>)
    IN Result(Alloc(h, dx), saved, <<NewId(h), None>>, "")

----------------------------------------------------------------------------
(* LayerNormFn *)

LayerNormFn_forward(h, xi, gammai, betai) ==
    LET x == h[xi]
        Tn == x.shape[1]
        Cn == x.shape[2]
        m == Tensor(<<Tn>>, "float", <<"mean", x.data>>)
        mu == Tensor(<<Tn, Cn>>, "float", <<"x-mean", x.data>>)
        v == Tensor(<<Tn>>, "float", <<"var", x.data>>)
        sigma == Tensor(<<Tn>>, "float", <<"rsqrt(var+eps)", x.data>>)
        y == Tensor(<<Tn, Cn>>, "float",
                    <<"mu*sigma*gamma+beta", x.data, h[gammai].data, h[betai].data>>)
        n == Len(h)
    IN Result(h \o <<m, mu, v, sigma, y>>,
              <<xi, gammai, betai, n + 1, n + 2, n + 3, n + 4, n + 5>>, n + 5, "")

LayerNormFn_backward(h, saved, gi) ==
    LET x == h[saved[1]]
        g == h[gi]
        Tn == x.shape[1]
        Cn == x.shape[2]
        dgamma == Tensor(<<Cn>>, "float",
                         <<"einsum tc,tc,t->c", g.data, h[saved[5]].data, h[saved[7]].data>>)
        dbeta == Tensor(<<Cn>>, "float", Sum0(g.data))
        dx == Tensor(<<Tn, Cn>>, "float",
                     <<"layer_norm_dx", g.data, h[saved[2]].data,
                       h[saved[5]].data, h[saved[7]].data>>)
        n == Len(h)
    IN Result(h \o <<dgamma, dbeta, dx>>, saved, <<n + 3, n + 1, n + 2>>, "")

----------------------------------------------------------------------------
(* LinearFn *)

LinearFn_forward(h, xi, wi, bi) ==
    LET x == h[xi].data
        w == h[wi].data
        b == h[bi].data
        o == MatMul(x, Transpose(w))
        y == [t \in 1..Len(o) |-> [c \in 1..Len(o[1]) |-> o[t][c] + b[c]]]
    IN Result(Alloc(h, Tensor(<<Len(y), Len(y[1])>>, "float", y)),
              <<xi, wi, bi>>, NewId(h), "")

\* variant: the weight gradient is x.T @ y_grad
LinearFn_backward_dwT(h, saved, gi) ==
    LET x == h[saved[1]].data
        w == h[saved[2]].data
        g == h[gi].data
        dx == MatMul(g, w)
        dw == MatMul(Transpose(x), g)
        db == Sum0(g)
        n == Len(h)
    IN Result(h \o <<Tensor(<<Len(dx), Len(dx[1])>>, "float", dx),
                     Tensor(<<Len(dw), Len(dw[1])>>, "float", dw),
                     Tensor(<<Len(db)>>, "float", db)>>,
              saved, <<n + 1, n + 2, n + 3>>, "")

LinearFn_backward(h, saved, gi) ==
    LET x == h[saved[1]].data
        w == h[saved[2]].data
        g == h[gi].data
        dx == MatMul(g, w)
        dw == MatMul(Transpose(g), x)
        db == Sum0(g)
        n == Len(h)
    IN Result(h \o <<Tensor(<<Len(dx), Len(dx[1])>>, "float", dx),
                     Tensor(<<Len(dw), Len(dw[1])>>, "float", dw),
                     Tensor(<<Len(db)>>, "float", db)>>,
              saved, <<n + 1, n + 2, n + 3>>, "")

----------------------------------------------------------------------------
(* GELUFn *)

GELUFn_forward(h, xi) ==
    LET x == h[xi]
        a == Tensor(<<>>, "float", <<"sqrt(2/pi)">>)
        b == Tensor(x.shape, "float", <<"a*(x+0.044715*x^3)", x.data>>)
        y == Tensor(x.shape, "float", <<"0.5*x*(1+tanh(b))", x.data>>)
        n == Len(h)
    IN Result(h \o <<a, b, y>>, <<xi, n + 1, n + 2>>, n + 3, "")

GELUFn_backward(h, saved, gi) ==
    LET x == h[saved[1]]
        dx == Tensor(x.shape, "float",
                     <<"y_grad*0.5*(1+tanh(b)+x/cosh(b)^2*db)", h[gi].data, x.data>>)
    IN Result(Alloc(h, dx), saved, <<NewId(h)>>, "")

----------------------------------------------------------------------------
(* AddFn *)

\* a + b for two tensors of one shape
AddData(shape, a, b) ==
    IF Len(shape) = 1
    THEN [c \in 1..shape[1] |-> a[c] + b[c]]
    ELSE [t \in 1..shape[1] |-> [c \in 1..shape[2] |-> a[t][c] + b[t][c]]]

\* variant: no shape assertion, a 1-d second operand is broadcast over the rows
AddFn_forward_broadcast(h, ai, bi) ==
    LET a == h[ai]
        b == h[bi]
    IN IF a.shape = b.shape
       THEN Result(Alloc(h, Tensor(a.shape, "float", AddData(a.shape, a.data, b.data))),
                   <<>>, NewId(h), "")
       ELSE IF Len(a.shape) = 2 /\ Len(b.shape) = 1 /\ a.shape[2] = b.shape[1]
       THEN Result(Alloc(h, Tensor(a.shape, "float",
                       [t \in 1..a.shape[1] |-> [c \in 1..a.shape[2] |->
                           a.data[t][c] + b.data[c]]])),
                   <<>>, NewId(h), "")
       ELSE Result(h, <<>>, None, "RuntimeError")

AddFn_forward(h, ai, bi) ==
    LET a == h[ai]
        b == h[bi]
    IN IF a.shape = b.shape
       THEN Result(Alloc(h, Tensor(a.shape, "float", AddData(a.shape, a.data, b.data))),
                   <<>>, NewId(h), "")
       ELSE Result(h, <<>>, None, "AssertionError")

\* variant: the second operand receives twice the upstream gradient
AddFn_backward_doubled(h, saved, gi) ==
    LET g == h[gi]
    IN Result(Alloc(h, Tensor(g.shape, "float", AddData(g.shape, g.data, g.data))),
              saved, <<gi, NewId(h)>>, "")

AddFn_backward(h, saved, gi) == Result(h, saved, <<gi, gi>>, "")

----------------------------------------------------------------------------
(* EmbeddingFn *)

EmbeddingFn_forward(h, xi, embi) ==
    LET x == h[xi].data
        emb == h[embi].data
        y == IndexRows(emb, x)
    IN Result(Alloc(h, Tensor(<<Len(x), Len(emb[1])>>, "float", y)),
              <<xi, embi>>, NewId(h), "")

\* variant: index_add_ into the saved table itself
EmbeddingFn_backward_inplace(h, saved, gi) ==
    LET x == h[saved[1]].data
        emb == h[saved[2]]
        demb == IndexAdd(emb.data, x, h[gi].data)
    IN Result([h EXCEPT ![saved[2]] = Tensor(emb.shape, "float", demb)],
              saved, <<None, saved[2]>>, "")

EmbeddingFn_backward(h, saved, gi) ==
    LET x == h[saved[1]].data
        emb == h[saved[2]]
        demb == IndexAdd(ZerosLike(emb.data), x, h[gi].data)
    IN Result(Alloc(h, Tensor(emb.shape, "float", demb)), saved, <<None, NewId(h)>>, "")

----------------------------------------------------------------------------
(* One operator invocation: the caller builds the inputs, forward runs,    *)
(* the engine supplies the upstream gradient, backward runs.               *)

OpNames == <<"cross_entropy", "layer_norm", "linear", "gelu", "add", "embedding">>

OpInit ==
    /\ heap = <<>>
    /\ op = "none"
    /\ inputs = <<>>
    /\ ctx = <<>>
    /\ out = None
    /\ ygrad = None
    /\ grads = <<>>
    /\ status = "idle"
    /\ exc = ""

HarnessIdle ==
    /\ pc = "off"
    /\ i = 0
    /\ params = <<>>
    /\ stdout = <<>>
    /\ stderr = <<>>
    /\ fwdOK = {}
    /\ gradOK = {}
    /\ ceY = <<>>
    /\ embX = <<>>

Init == OpInit /\ HarnessIdle

\* the caller's tensors become the first cells of the heap
Ready(name, tensors) ==
    /\ status = "idle"
    /\ pc = "off"
    /\ heap' = tensors
    /\ op' = name
    /\ inputs' = [k \in 1..Len(tensors) |-> k]
    /\ status' = "ready"
    /\ UNCHANGED <<ctx, out, ygrad, grads, exc>>
    /\ UNCHANGED harnessVars

Inputs_CrossEntropy ==
    \E Tn \in Dims, Cn \in Dims, L \in 1..(MaxDim + 1), sx \in Seeds :
        \E y \in RandInt(Cn, L) :
            Ready("cross_entropy", <<Rand2(sx, Tn, Cn), IntTensor(y)>>)

Inputs_LayerNorm ==
    \E Tn \in Dims, Cn \in Dims, sx \in Seeds, sg \in Seeds :
        Ready("layer_norm", <<Rand2(sx, Tn, Cn), Rand1(sg, Cn), Rand1(sg + 1, Cn)>>)

Inputs_Linear ==
    \E Tn \in Dims, In \in Dims, Out \in Dims, sx \in Seeds, sw \in Seeds :
        Ready("linear", <<Rand2(sx, Tn, In), Rand2(sw, Out, In), Rand1(sw, Out)>>)

Inputs_GELU ==
    \E Tn \in Dims, Cn \in Dims, sx \in Seeds :
        Ready("gelu", <<Rand2(sx, Tn, Cn)>>)

Inputs_Add ==
    \E Tn \in Dims, Cn \in Dims, T2 \in Dims, C2 \in Dims, sa \in Seeds, sb \in Seeds :
        \/ Ready("add", <<Rand2(sa, Tn, Cn), Rand2(sb, T2, C2)>>)
        \/ Ready("add", <<Rand2(sa, Tn, Cn), Rand1(sb, C2)>>)
        \/ Ready("add", <<Rand1(sa, Cn), Rand1(sb, C2)>>)

Inputs_Embedding ==
    \E N \in Dims, D \in Dims, Tn \in 1..(MaxDim + 1), se \in Seeds :
        \E x \in RandInt(N, Tn) :
            Ready("embedding", <<IntTensor(x), Rand2(se, N, D)>>)

\* the state after a forward call that returned r
DoForward(name, r) ==
    /\ status = "ready"
    /\ pc = "off"
    /\ op = name
    /\ heap' = r.heap
    /\ ctx' = r.saved
    /\ out' = r.ret
    /\ exc' = r.exc
    /\ status' = IF r.exc = "" THEN "forward" ELSE "raised"
    /\ UNCHANGED <<op, inputs, ygrad, grads>>
    /\ UNCHANGED harnessVars

Forward_CrossEntropy ==
    DoForward("cross_entropy", CrossEntropyFn_forward(heap, inputs[1], inputs[2]))

Forward_LayerNorm ==
    DoForward("layer_norm", LayerNormFn_forward(heap, inputs[1], inputs[2], inputs[3]))

Forward_Linear ==
    DoForward("linear", LinearFn_forward(heap, inputs[1], inputs[2], inputs[3]))

Forward_GELU == DoForward("gelu", GELUFn_forward(heap, inputs[1]))

Forward_Add == DoForward("add", AddFn_forward(heap, inputs[1], inputs[2]))

Forward_Embedding ==
    DoForward("embedding", EmbeddingFn_forward(heap, inputs[1], inputs[2]))

\* the gradient of the objective with respect to the output, of the output's shape
UpstreamTensor(seed, shape) ==
    IF Len(shape) = 0 THEN Tensor(<<>>, "float", seed + 1)
    ELSE IF Len(shape) = 1 THEN Rand1(seed + 1, shape[1])
    ELSE Rand2(seed + 1, shape[1], shape[2])

Upstream ==
    /\ status = "forward"
    /\ pc = "off"
    /\ \E sg \in Seeds :
        /\ heap' = Alloc(heap, UpstreamTensor(sg, heap[out].shape))
        /\ ygrad' = NewId(heap)
    /\ status' = "gradready"
    /\ UNCHANGED <<op, inputs, ctx, out, grads, exc>>
    /\ UNCHANGED harnessVars

\* the state after a backward call that returned r
DoBackward(name, r) ==
    /\ status = "gradready"
    /\ pc = "off"
    /\ op = name
    /\ heap' = r.heap
    /\ grads' = r.ret
    /\ status' = "backward"
    /\ UNCHANGED <<op, inputs, ctx, out, ygrad, exc>>
    /\ UNCHANGED harnessVars

Backward_CrossEntropy ==
    DoBackward("cross_entropy", CrossEntropyFn_backward(heap, ctx, ygrad))

Backward_LayerNorm == DoBackward("layer_norm", LayerNormFn_backward(heap, ctx, ygrad))

Backward_Linear == DoBackward("linear", LinearFn_backward(heap, ctx, ygrad))

Backward_GELU == DoBackward("gelu", GELUFn_backward(heap, ctx, ygrad))

Backward_Add == DoBackward("add", AddFn_backward(heap, ctx, ygrad))

Backward_Embedding == DoBackward("embedding", EmbeddingFn_backward(heap, ctx, ygrad))

\* the context is discarded after its one backward call, or after a raise
Discard ==
    /\ status \in {"backward", "raised"}
    /\ pc = "off"
    /\ heap' = <<>>
    /\ op' = "none"
    /\ inputs' = <<>>
    /\ ctx' = <<>>
    /\ out' = None
    /\ ygrad' = None
    /\ grads' = <<>>
    /\ status' = "idle"
    /\ exc' = ""
    /\ UNCHANGED harnessVars

Next ==
    \/ Inputs_CrossEntropy \/ Inputs_LayerNorm \/ Inputs_Linear
    \/ Inputs_GELU \/ Inputs_Add \/ Inputs_Embedding
    \/ Forward_CrossEntropy \/ Forward_LayerNorm \/ Forward_Linear
    \/ Forward_GELU \/ Forward_Add \/ Forward_Embedding
    \/ Upstream
    \/ Backward_CrossEntropy \/ Backward_LayerNorm \/ Backward_Linear
    \/ Backward_GELU \/ Backward_Add \/ Backward_Embedding
    \/ Discard

Spec == Init /\ [][Next]_vars

----------------------------------------------------------------------------
(* The __main__ harness: builds the table of tests, then for each test in  *)
(* order builds the parameters, compares forward with the reference, runs  *)
(* the gradient check and prints "<test> passed".  An assertion or         *)
(* gradient-check failure is an uncaught exception: the interpreter writes *)
(* the traceback and the program ends.  Lines are tuples of words.         *)

FinalLine == <<"all", "tests", "passed!", "yay", "congrats", ">w<">>

PassedLine(k) == <<OpNames[k], "passed">>

\* the interpreter's report of an uncaught exception raised at a source line
Traceback(e, lineno, msg) ==
    << <<"Traceback", "(most", "recent", "call", "last):">>,
       <<"File", "modules.py", "line", lineno, "in", "<module>">>,
       IF lineno = "240"
       THEN <<"assert", "torch.allclose(info[\"func\"](*params),",
              "info[\"fwd_ref\"](*params),", "**err_args)">>
       ELSE <<"ag.gradcheck(info[\"func\"],", "params,", "eps=1e-6,", "**err_args)">>,
       <<e>> \o msg >>

GradcheckMessage ==
    <<"Jacobian", "mismatch", "for", "output", "0", "with", "respect", "to", "input">>

\* the index tensors the tests dict holds, drawn when the dict is built
CrossEntropyTargets == RandInt(C - 1, T)
EmbeddingIndices == RandInt(T - 1, T)

\* params of test k: a shape tuple becomes torch.rand(shape), a tensor is kept
TestParams(k) ==
    CASE k = 1 -> <<Rand2(0, T, C), IntTensor(ceY)>>
      [] k = 2 -> <<Rand2(0, T, C), Rand1(1, C), Rand1(2, C)>>
      [] k = 3 -> <<Rand2(0, T, C), Rand2(1, C, C), Rand1(2, C)>>
      [] k = 4 -> <<Rand2(0, T, C)>>
      [] k = 5 -> <<Rand2(0, T, C), Rand2(1, T, C)>>
      [] k = 6 -> <<IntTensor(embX), Rand2(1, T, C)>>

\* info["func"](*params)
ApplyForward(k, h, ins) ==
    CASE k = 1 -> CrossEntropyFn_forward(h, ins[1], ins[2])
      [] k = 2 -> LayerNormFn_forward(h, ins[1], ins[2], ins[3])
      [] k = 3 -> LinearFn_forward(h, ins[1], ins[2], ins[3])
      [] k = 4 -> GELUFn_forward(h, ins[1])
      [] k = 5 -> AddFn_forward(h, ins[1], ins[2])
      [] k = 6 -> EmbeddingFn_forward(h, ins[1], ins[2])

ApplyBackward(k, h, saved, gi) ==
    CASE k = 1 -> CrossEntropyFn_backward(h, saved, gi)
      [] k = 2 -> LayerNormFn_backward(h, saved, gi)
      [] k = 3 -> LinearFn_backward(h, saved, gi)
      [] k = 4 -> GELUFn_backward(h, saved, gi)
      [] k = 5 -> AddFn_backward(h, saved, gi)
      [] k = 6 -> EmbeddingFn_backward(h, saved, gi)

\* gradcheck's upstream gradients: one output component at a time
UnitGrads(shape) ==
    IF Len(shape) = 0 THEN {Tensor(<<>>, "float", 1)}
    ELSE {Tensor(shape, "float",
                 [t \in 1..shape[1] |-> [c \in 1..shape[2] |->
                     IF t = t0 /\ c = c0 THEN 1 ELSE 0]]) :
             t0 \in 1..shape[1], c0 \in 1..shape[2]}

HarnessInit ==
    /\ OpInit
    /\ pc = "tests"
    /\ i = 0
    /\ params = <<>>
    /\ stdout = <<>>
    /\ stderr = <<>>
    /\ fwdOK = {}
    /\ gradOK = {}
    /\ ceY = <<>>
    /\ embX = <<>>

BuildTests ==
    /\ pc = "tests"
    /\ \E y \in CrossEntropyTargets, x \in EmbeddingIndices :
        /\ ceY' = y
        /\ embX' = x
    /\ i' = 1
    /\ pc' = "params"
    /\ UNCHANGED <<params, stdout, stderr, fwdOK, gradOK>>
    /\ UNCHANGED opVars

BuildParams ==
    /\ pc = "params"
    /\ heap' = TestParams(i)
    /\ params' = [k \in 1..Len(TestParams(i)) |-> k]
    /\ inputs' = [k \in 1..Len(TestParams(i)) |-> k]
    /\ op' = OpNames[i]
    /\ status' = "ready"
    /\ ctx' = <<>>
    /\ out' = None
    /\ ygrad' = None
    /\ grads' = <<>>
    /\ pc' = "forward"
    /\ UNCHANGED <<exc, i, stdout, stderr, fwdOK, gradOK, ceY, embX>>

\* variant: a successful forward comparison goes straight to the print
ForwardCheck_skipGradcheck ==
    /\ pc = "forward"
    /\ LET r == ApplyForward(i, heap, params)
       IN /\ heap' = r.heap
          /\ ctx' = r.saved
          /\ out' = r.ret
          /\ \E close \in BOOLEAN :
                IF close
                THEN /\ status' = "forward"
                     /\ pc' = "print"
                     /\ fwdOK' = fwdOK \cup {i}
                     /\ UNCHANGED <<exc, stderr>>
                ELSE /\ status' = "forward"
                     /\ exc' = "AssertionError"
                     /\ stderr' = Traceback("AssertionError", "240", <<>>)
                     /\ pc' = "raised"
                     /\ UNCHANGED fwdOK
    /\ UNCHANGED <<op, inputs, ygrad, grads, i, params, stdout, gradOK, ceY, embX>>

\* line 240: run forward, compare with the reference, assert
ForwardCheck ==
    /\ pc = "forward"
    /\ LET r == ApplyForward(i, heap, params)
       IN /\ heap' = r.heap
          /\ ctx' = r.saved
          /\ out' = r.ret
          /\ \E close \in BOOLEAN :
                IF r.exc # ""
                THEN /\ status' = "raised"
                     /\ exc' = r.exc
                     /\ stderr' = Traceback(r.exc, "240", <<>>)
                     /\ pc' = "raised"
                     /\ UNCHANGED fwdOK
                ELSE IF close
                THEN /\ status' = "forward"
                     /\ pc' = "gradcheck"
                     /\ fwdOK' = fwdOK \cup {i}
                     /\ UNCHANGED <<exc, stderr>>
                ELSE /\ status' = "forward"
                     /\ exc' = "AssertionError"
                     /\ stderr' = Traceback("AssertionError", "240", <<>>)
                     /\ pc' = "raised"
                     /\ UNCHANGED fwdOK
    /\ UNCHANGED <<op, inputs, ygrad, grads, i, params, stdout, gradOK, ceY, embX>>

\* line 241: backward on unit upstream gradients against finite differences
GradCheck ==
    /\ pc = "gradcheck"
    /\ \E g \in UnitGrads(heap[out].shape), ok \in BOOLEAN :
        LET r == ApplyBackward(i, Alloc(heap, g), ctx, NewId(heap))
        IN /\ heap' = r.heap
           /\ ygrad' = NewId(heap)
           /\ grads' = r.ret
           /\ status' = "backward"
           /\ IF ok
              THEN /\ pc' = "print"
                   /\ gradOK' = gradOK \cup {i}
                   /\ UNCHANGED <<exc, stderr>>
              ELSE /\ pc' = "raised"
                   /\ exc' = "GradcheckError"
                   /\ stderr' = Traceback("GradcheckError", "241", GradcheckMessage)
                   /\ UNCHANGED gradOK
    /\ UNCHANGED <<op, inputs, ctx, out, i, params, stdout, fwdOK, ceY, embX>>

\* line 243
EmitPassed ==
    /\ pc = "print"
    /\ stdout' = Append(stdout, PassedLine(i))
    /\ IF i < Len(OpNames)
       THEN i' = i + 1 /\ pc' = "params"
       ELSE i' = i /\ pc' = "final"
    /\ UNCHANGED <<params, stderr, fwdOK, gradOK, ceY, embX>>
    /\ UNCHANGED opVars

\* line 244
EmitFinal ==
    /\ pc = "final"
    /\ stdout' = Append(stdout, FinalLine)
    /\ pc' = "done"
    /\ UNCHANGED <<i, params, stderr, fwdOK, gradOK, ceY, embX>>
    /\ UNCHANGED opVars

HarnessNext ==
    \/ BuildTests
    \/ BuildParams
    \/ ForwardCheck
    \/ GradCheck
    \/ EmitPassed
    \/ EmitFinal

SpecHarness == HarnessInit /\ [][HarnessNext]_vars

----------------------------------------------------------------------------
(* Properties of the operators *)

Returned == status \in {"forward", "gradready", "backward"}

\* the call respects the operator's shape contract (targets: one per row)
InContract ==
    op = "cross_entropy" => heap[inputs[2]].shape[1] = heap[inputs[1]].shape[1]

(* C1: after backward of any of the six operators, there is one gradient
   entry per positional input of forward, in the order of the inputs
   (each gradient has the shape of the input at its position, and the third
   LayerNorm entry is the column sum that belongs to beta); the entry is
   None exactly for the integer inputs (targets, indices). *)
C1_OneGradientPerInput ==
    status = "backward" =>
        /\ Len(grads) = Len(inputs)
        /\ \A k \in 1..Len(inputs) :
              (grads[k] = None) <=> (heap[inputs[k]].dtype = "int")
        /\ \A k \in 1..Len(inputs) :
              (grads[k] # None /\ InContract) =>
                  heap[grads[k]].shape = heap[inputs[k]].shape
        /\ op = "layer_norm" => heap[grads[3]].data = Sum0(heap[ygrad].data)

C1_Witness ==
    /\ status = "backward"
    /\ op = "cross_entropy"
    /\ heap[inputs[1]].shape = <<2, 2>>
    /\ heap[inputs[2]].shape = <<2>>
    /\ grads[2] = None
    /\ grads[1] # None

(* C2: CrossEntropy forward with a targets tensor whose length differs from
   the number T of logit rows returns no loss. *)
C2_MismatchReturnsNoLoss ==
    (op = "cross_entropy" /\ heap[inputs[2]].shape[1] # heap[inputs[1]].shape[1])
        => out = None

(* C3: Embedding backward returns a table gradient of the table's shape;
   row k is the sum of the upstream rows g[t] over the positions t with
   x[t] = k, and all zeros when k occurs nowhere in x. *)
C3_EmbeddingAccumulates ==
    (status = "backward" /\ op = "embedding") =>
        LET x == heap[inputs[1]].data
            emb == heap[inputs[2]]
            g == heap[ygrad].data
            demb == heap[grads[2]]
        IN /\ demb.shape = emb.shape
           /\ Len(demb.data) = emb.shape[1]
           /\ \A k \in 1..emb.shape[1] :
                /\ Len(demb.data[k]) = emb.shape[2]
                /\ \A d \in 1..emb.shape[2] :
                      demb.data[k][d] =
                          SumSeq([t \in 1..Len(x) |->
                                     IF x[t] = k - 1 THEN g[t][d] ELSE 0])
                /\ (k - 1) \notin Range(x) =>
                      \A d \in 1..emb.shape[2] : demb.data[k][d] = 0

C3_Witness ==
    /\ status = "backward"
    /\ op = "embedding"
    /\ \E t1 \in DOMAIN heap[inputs[1]].data, t2 \in DOMAIN heap[inputs[1]].data :
          /\ t1 # t2
          /\ heap[inputs[1]].data[t1] = heap[inputs[1]].data[t2]
          /\ \E d \in 1..heap[inputs[2]].shape[2] :
                /\ heap[ygrad].data[t1][d] # 0
                /\ heap[ygrad].data[t2][d] # 0
    /\ \E k \in 1..heap[inputs[2]].shape[1] : (k - 1) \notin Range(heap[inputs[1]].data)

\* forward(x, W, b)[t,o] = sum over i of x[t,i]*W[o,i] + b[o], as the claim states it
AffineAt(x, w, b, t, o) == SumSeq([k \in 1..Len(x[1]) |-> x[t][k] * w[o][k]]) + b[o]

\* sum(g * forward(x, W, b))
Objective(g, x, w, b) ==
    SumSeq([t \in 1..Len(g) |->
        SumSeq([o \in 1..Len(g[1]) |-> g[t][o] * AffineAt(x, w, b, t, o)])])

Bump2(A, r, c) == [A EXCEPT ![r] = [A[r] EXCEPT ![c] = A[r][c] + 1]]
Bump1(v, c) == [v EXCEPT ![c] = v[c] + 1]

(* C4: Linear backward returns dx[t,i] = sum_o g[t,o]*W[o,i],
   dw[o,i] = sum_t g[t,o]*x[t,i], db[o] = sum_t g[t,o], each of the shape of
   its input, and these are the partial derivatives of
   sum(g * forward(x, W, b)): the objective is affine in each single entry,
   so the derivative is the change of the objective for a unit step. *)
C4_LinearGradients ==
    (status = "backward" /\ op = "linear") =>
        LET x == heap[inputs[1]].data
            w == heap[inputs[2]].data
            b == heap[inputs[3]].data
            g == heap[ygrad].data
            dx == heap[grads[1]]
            dw == heap[grads[2]]
            db == heap[grads[3]]
            Tn == Len(x)
            In == Len(x[1])
            Out == Len(w)
            base == Objective(g, x, w, b)
        IN /\ \A t \in 1..Tn, o \in 1..Out : heap[out].data[t][o] = AffineAt(x, w, b, t, o)
           /\ dx.shape = <<Tn, In>> /\ Len(dx.data) = Tn
           /\ dw.shape = <<Out, In>> /\ Len(dw.data) = Out
           /\ db.shape = <<Out>> /\ Len(db.data) = Out
           /\ \A t \in 1..Tn : Len(dx.data[t]) = In
           /\ \A o \in 1..Out : Len(dw.data[o]) = In
           /\ \A t \in 1..Tn, k \in 1..In :
                 /\ dx.data[t][k] = SumSeq([o \in 1..Out |-> g[t][o] * w[o][k]])
                 /\ dx.data[t][k] = Objective(g, Bump2(x, t, k), w, b) - base
           /\ \A o \in 1..Out, k \in 1..In :
                 /\ dw.data[o][k] = SumSeq([t \in 1..Tn |-> g[t][o] * x[t][k]])
                 /\ dw.data[o][k] = Objective(g, x, Bump2(w, o, k), b) - base
           /\ \A o \in 1..Out :
                 /\ db.data[o] = SumSeq([t \in 1..Tn |-> g[t][o]])
                 /\ db.data[o] = Objective(g, x, w, Bump1(b, o)) - base

C4_Witness ==
    /\ status = "backward"
    /\ op = "linear"
    /\ heap[inputs[1]].shape = <<2, 1>>
    /\ heap[inputs[2]].shape = <<2, 1>>
    /\ \E t \in 1..2 : heap[grads[1]].data[t][1] # 0
    /\ \E o \in 1..2 : heap[grads[2]].data[o][1] # 0
    /\ \E o \in 1..2 : heap[grads[3]].data[o] # 0

(* C5: Add backward returns the upstream gradient unchanged as the gradient
   of both operands, and forward(A, B) equals forward(B, A). *)
C5_AddIdentityCommutative ==
    (status = "backward" /\ op = "add") =>
        LET swapped == AddFn_forward(heap, inputs[2], inputs[1])
        IN /\ Len(grads) = 2
           /\ heap[grads[1]] = heap[ygrad]
           /\ heap[grads[2]] = heap[ygrad]
           /\ swapped.exc = ""
           /\ swapped.heap[swapped.ret] = heap[out]

C5_Witness ==
    /\ status = "backward"
    /\ op = "add"
    /\ heap[inputs[1]].shape = <<2, 2>>
    /\ heap[inputs[1]].data # heap[inputs[2]].data
    /\ \E t \in 1..2, c \in 1..2 : heap[ygrad].data[t][c] # 0

(* C6: Add forward on operands of different shapes (broadcast-compatible
   ones included) raises and produces no output; it produces a sum only
   when the shapes are equal. *)
C6_AddShapeMismatchFails ==
    (op = "add" /\ status # "ready") =>
        LET sa == heap[inputs[1]].shape
            sb == heap[inputs[2]].shape
        IN /\ sa # sb => (status = "raised" /\ exc = "AssertionError" /\ out = None)
           /\ out # None => sa = sb

C6_Witness ==
    /\ op = "add"
    /\ status = "raised"
    /\ heap[inputs[1]].shape = <<2, 2>>
    /\ heap[inputs[2]].shape = <<2>>
    /\ out = None

\* one call (forward or backward) left every existing tensor as it was
NoMutationStep ==
    status' \in {"forward", "raised", "backward"} =>
        \A id \in 1..Len(heap) : heap'[id] = heap[id]

\* the call's results are tensors that did not exist before the call
FreshForward == status' = "forward" => out' > Len(heap)
FreshBackward ==
    status' = "backward" =>
        \A k \in 1..Len(grads') : grads'[k] # None => grads'[k] > Len(heap)

(* C9 as stated: no forward or backward changes a tensor that existed
   before the call, and every result is a newly created tensor. *)
C9_AllResultsFresh ==
    [][(status \in {"ready", "gradready"}) =>
          (NoMutationStep /\ FreshForward /\ FreshBackward)]_vars

(* C9 as amended: no forward or backward changes a tensor that existed
   before the call; every forward result and every backward result is a
   newly created tensor, except that Add backward returns the upstream
   gradient tensor itself as both gradients. *)
C9_NoMutationFreshExceptAdd ==
    [][(status \in {"ready", "gradready"}) =>
          /\ NoMutationStep
          /\ FreshForward
          /\ op # "add" => FreshBackward
          /\ (op = "add" /\ status' = "backward") => grads' = <<ygrad, ygrad>>]_vars

C9_Witness ==
    /\ status = "backward"
    /\ op = "embedding"
    /\ grads[2] > ygrad
    /\ heap[grads[2]].data # heap[inputs[2]].data
    /\ \E k \in 1..Len(heap[grads[2]].data), d \in 1..heap[inputs[2]].shape[2] :
          heap[grads[2]].data[k][d] # 0

----------------------------------------------------------------------------
(* Properties of the harness *)

Words(lines) == UNION {Range(lines[n]) : n \in DOMAIN lines}

(* C7: when the forward comparison or the gradient check of an operator
   finds a mismatch, the run is aborted, the failure report names the
   operator that failed, no "passed" line is printed for that operator and
   the final message is not printed. *)
C7_FailureReportNamesOperator ==
    pc = "raised" =>
        /\ OpNames[i] \in Words(stderr)
        /\ PassedLine(i) \notin Range(stdout)
        /\ FinalLine \notin Range(stdout)

(* C8: "<operator> passed" is printed only after both the forward
   comparison and the gradient check of that operator succeeded; the
   operators are checked one at a time in the order cross_entropy,
   layer_norm, linear, gelu, add, embedding; the final message is printed
   only after all six passed lines. *)
C8_PassedOnlyAfterBothChecks ==
    /\ \A k \in 1..Len(OpNames) :
          PassedLine(k) \in Range(stdout) => (k \in fwdOK /\ k \in gradOK)
    /\ Len(stdout) <= Len(OpNames) + 1
    /\ \A n \in 1..Len(stdout) :
          IF n <= Len(OpNames) THEN stdout[n] = PassedLine(n) ELSE stdout[n] = FinalLine
    /\ OpNames = <<"cross_entropy", "layer_norm", "linear", "gelu", "add", "embedding">>
    /\ gradOK \subseteq fwdOK
    /\ fwdOK \subseteq 1..i
    /\ \A k \in fwdOK : k < i => PassedLine(k) \in Range(stdout)
    /\ FinalLine \in Range(stdout) => fwdOK \cap gradOK = 1..Len(OpNames)

C8_Witness ==
    /\ pc = "done"
    /\ Len(stdout) = 7
    /\ stdout[6] = <<"embedding", "passed">>
    /\ stdout[7] = FinalLine

(* C10: in every run the embedding test's T indices are valid rows of the
   T-row table and lie in 0..T-2, some index value occurs at two or more
   positions, row T-1 is never looked up and its gradient is zero; the
   cross-entropy targets lie in 0..C-2. *)
C10_HarnessIndexRanges ==
    pc # "tests" =>
        /\ Len(embX) = T
        /\ \A t \in 1..T : embX[t] \in 0..(T - 2)
        /\ \E t1 \in 1..T, t2 \in 1..T : t1 # t2 /\ embX[t1] = embX[t2]
        /\ Len(ceY) = T
        /\ \A t \in 1..T : ceY[t] \in 0..(C - 2)
        /\ (op = "embedding" /\ status # "ready") =>
              /\ heap[inputs[2]].shape[1] = T
              /\ \A t \in 1..T : heap[out].data[t] = heap[inputs[2]].data[embX[t] + 1]
        /\ (op = "embedding" /\ status = "backward") =>
              \A d \in 1..C : heap[grads[2]].data[T][d] = 0

C10_Witness ==
    /\ pc = "print"
    /\ op = "embedding"
    /\ status = "backward"
    /\ \E t1 \in 1..T, t2 \in 1..T :
          /\ t1 # t2
          /\ embX[t1] = embX[t2]
          /\ \E d \in 1..C : heap[grads[2]].data[embX[t1] + 1][d] = 1
    /\ \A d \in 1..C : heap[grads[2]].data[T][d] = 0

====
